---- MODULE Spec2Model ----
(***************************************************************************)
(* Model of the DOCX redaction engine and of its HTTP handlers, as         *)
(* implemented in redaction-tool-backend/src/routes/redaction_final.py.    *)
(*                                                                         *)
(* Characters are modelled by their Unicode code points, strings by        *)
(* sequences of code points, the element tree of word/document.xml by      *)
(* nested records, a ZIP archive by the sequence of its entries and the    *)
(* temp directory by one variable per file the handlers touch.             *)
(***************************************************************************)
EXTENDS Integers, Sequences, FiniteSets, TLC

VARIABLES
    original,        \* the uploaded package stored at filepath
    redaction_file,  \* <filename>_redactions.json: the stored batch
    redactions,      \* the batch handed to create_redacted_docx
    output,          \* the file at output_path
    success,         \* return value of the last create_redacted_docx call
    response,        \* the last HTTP response of a handler
    content,         \* the paragraphs upload_file extracted and returned
    posted,          \* the redactions of the last POST /redact body
    fs,              \* UPLOAD_FOLDER: the packages by file name
    store,           \* UPLOAD_FOLDER: the redaction files by document file name
    thread,          \* the requests in flight and where their handlers stand
    now,             \* int(time.time())
    served,          \* the number of /redact and /download requests taken
    debug_created,   \* what create_redacted_docx of redaction_debug.py made
    minimal_content, \* what extract_text_from_docx of redaction_minimal.py lists
    minimal_created  \* what create_redacted_docx of redaction_minimal.py made

\* the variables of one handler run at a time
seqvars == <<original, redaction_file, redactions, output, success, response,
             content, posted>>

\* the variables of the handlers running concurrently
concvars == <<fs, store, thread, now, served>>

\* the variables of the other route modules
variantvars == <<debug_created, minimal_content, minimal_created>>

vars == <<original, redaction_file, redactions, output, success, response,
          content, posted, fs, store, thread, now, served,
          debug_created, minimal_content, minimal_created>>

----------------------------------------------------------------------------
(* Bounds of the model *)

MaxLen == 2        \* longest paragraph text drawn for a generic document
MaxParas == 2      \* most paragraphs in a generic document
MaxBatch == 2      \* most requests in a generic batch

----------------------------------------------------------------------------
(* Strings *)

\* 'a', 'b', 'c', ... : the generic texts are prefixes of the alphabet
Letter(i) == 96 + i

Prefix(n) == [i \in 1..n |-> Letter(i)]

\* The literal of redaction_final.py line 122.  The source file is UTF-8 and
\* the literal holds three characters, U+00E2 U+2013 U+02C6 (the UTF-8 bytes
\* of U+2588 read as cp1252), not the single character U+2588.
BLOCK == <<226, 8211, 710>>

\* U+2588 FULL BLOCK, the glyph the specification names
FullBlock == 9608

RECURSIVE Repeat(_, _)
\* Python's  s * n  for a string s
Repeat(s, n) == IF n <= 0 THEN <<>> ELSE s \o Repeat(s, n - 1)

\* Python's  text[lo:hi]  for 0 <= lo <= hi <= len(text)
Slice(text, lo, hi) == SubSeq(text, lo + 1, hi)

----------------------------------------------------------------------------
(* Element tree of a paragraph: a node is a w:t element (with its text) or  *)
(* a w:r element (with its children).  A path is the sequence of child      *)
(* indices leading from the paragraph to an element and stands for the      *)
(* element object.                                                           *)

T(text) == [tag |-> "t", text |-> text, kids |-> <<>>]

R(kids) == [tag |-> "r", text |-> <<>>, kids |-> kids]

RECURSIVE FindFrom(_, _, _, _)
\* Element.findall('.//w:<tag>') over the children nodes[i..], in document
\* order; prefix is the path of the element whose children nodes are
FindFrom(nodes, i, tag, prefix) ==
    IF i > Len(nodes) THEN <<>>
    ELSE LET p == Append(prefix, i)
         IN  (IF nodes[i].tag = tag THEN <<p>> ELSE <<>>)
             \o FindFrom(nodes[i].kids, 1, tag, p)
             \o FindFrom(nodes, i + 1, tag, prefix)

FindAll(nodes, tag) == FindFrom(nodes, 1, tag, <<>>)

RECURSIVE NodeAt(_, _)
NodeAt(nodes, path) ==
    IF Len(path) = 1 THEN nodes[path[1]]
    ELSE NodeAt(nodes[path[1]].kids, Tail(path))

RECURSIVE SetText(_, _, _)
\* element.text = text  for the element at path
SetText(nodes, path, text) ==
    IF Len(path) = 1
    THEN [nodes EXCEPT ![path[1]].text = text]
    ELSE [nodes EXCEPT ![path[1]].kids = SetText(@, Tail(path), text)]

RECURSIVE SubElement(_, _, _)
\* ET.SubElement(parent, tag): a new last child of the element at path
SubElement(nodes, path, node) ==
    IF Len(path) = 1
    THEN [nodes EXCEPT ![path[1]].kids = Append(@, node)]
    ELSE [nodes EXCEPT ![path[1]].kids = SubElement(@, Tail(path), node)]

RECURSIVE ConcatTexts(_, _)
\* text_content += text_elem.text  over the elements at paths
ConcatTexts(nodes, paths) ==
    IF paths = <<>> THEN <<>>
    ELSE NodeAt(nodes, Head(paths)).text \o ConcatTexts(nodes, Tail(paths))

\* extract_text_from_docx, the text of one paragraph
ParagraphText(para) == ConcatTexts(para, FindAll(para, "t"))

\* the text is empty or holds spaces only
Blank(text) == \A i \in 1..Len(text) : text[i] = 32

\* lines 41-46 with blank paragraphs skipped, the ids counting the kept ones
ExtractSkippingBlank(paras) ==
    LET kept == SelectSeq(paras, LAMBDA para : ~Blank(ParagraphText(para)))
    IN  [k \in 1..Len(kept) |-> [id |-> k - 1, text |-> ParagraphText(kept[k])]]

\* extract_text_from_docx on a parsed document: one entry per paragraph
ExtractParagraphs(paras) ==
    [k \in 1..Len(paras) |-> [id |-> k - 1, text |-> ParagraphText(paras[k])]]

----------------------------------------------------------------------------
(* create_redacted_docx: the redaction of one paragraph *)

RECURSIVE TextElements(_, _)
\* text_elements: for every run, in document order, the w:t descendants of
\* the run whose text is not empty (a w:t below two runs is listed twice)
TextElements(para, runs) ==
    IF runs = <<>> THEN <<>>
    ELSE LET run == Head(runs)
             ts  == FindFrom(NodeAt(para, run).kids, 1, "t", run)
         IN  SelectSeq(ts, LAMBDA p : NodeAt(para, p).text # <<>>)
             \o TextElements(para, Tail(runs))

\* the sort of line 112 left out: the requests stay in batch order
SortOmitted(reqs) == reqs

RECURSIVE SortByStartDesc(_)
\* para_redactions.sort(key=startPos, reverse=True): a stable sort, requests
\* of equal startPos keep their batch order
SortByStartDesc(reqs) ==
    IF reqs = <<>> THEN <<>>
    ELSE LET front == SortByStartDesc(SubSeq(reqs, 1, Len(reqs) - 1))
             r     == reqs[Len(reqs)]
             k     == Cardinality({i \in 1..Len(front) :
                                      front[i].startPos >= r.startPos})
         IN  SubSeq(front, 1, k) \o <<r>> \o SubSeq(front, k + 1, Len(front))

\* the guard of line 120, against the text as redacted so far
Accepts(text, r) ==
    /\ 0 <= r.startPos
    /\ r.startPos < Len(text)
    /\ r.startPos < r.endPos
    /\ r.endPos <= Len(text)

\* lines 121-123 with a redaction_length one too long
RedactOneTooLong(text, r) ==
    IF Accepts(text, r)
    THEN Slice(text, 0, r.startPos)
         \o Repeat(BLOCK, r.endPos - r.startPos + 1)
         \o Slice(text, r.endPos, Len(text))
    ELSE text

\* lines 117-123: one request against the text as redacted so far
RedactOne(text, r) ==
    IF Accepts(text, r)
    THEN Slice(text, 0, r.startPos)
         \o Repeat(BLOCK, r.endPos - r.startPos)
         \o Slice(text, r.endPos, Len(text))
    ELSE text

RECURSIVE RedactText(_, _)
\* lines 115-123: the requests of one paragraph, in the order given
RedactText(text, reqs) ==
    IF reqs = <<>> THEN text
    ELSE RedactText(RedactOne(text, Head(reqs)), Tail(reqs))

RECURSIVE ClearTexts(_, _)
\* lines 126-127
ClearTexts(para, paths) ==
    IF paths = <<>> THEN para
    ELSE ClearTexts(SetText(para, Head(paths), <<>>), Tail(paths))

\* lines 93-109: the text the offsets of a request are applied to
FullText(para) == ConcatTexts(para, TextElements(para, FindAll(para, "r")))

\* lines 93-135: the body of the loop for one paragraph and its requests
RedactParagraph(para, para_redactions) ==
    LET runs          == FindAll(para, "r")
        text_elements == TextElements(para, runs)
        full_text     == ConcatTexts(para, text_elements)
        redacted_text == RedactText(full_text, SortByStartDesc(para_redactions))
        cleared       == ClearTexts(para, text_elements)
    IN  IF text_elements # <<>>
        THEN SetText(cleared, Head(text_elements), redacted_text)
        ELSE IF runs # <<>>
             THEN SubElement(cleared, Head(runs), T(redacted_text))
             ELSE cleared

----------------------------------------------------------------------------
(* create_redacted_docx: the batch against the document *)

RECURSIVE GroupKeys(_)
\* the keys of redactions_by_para, in insertion order (first occurrence)
GroupKeys(reqs) ==
    IF reqs = <<>> THEN <<>>
    ELSE LET front == GroupKeys(SubSeq(reqs, 1, Len(reqs) - 1))
             id    == reqs[Len(reqs)].paragraphId
         IN  IF \E i \in 1..Len(front) : front[i] = id
             THEN front ELSE Append(front, id)

\* redactions_by_para[para_id]
Group(reqs, para_id) == SelectSeq(reqs, LAMBDA r : r.paragraphId = para_id)

\* paragraphs[para_id] of a Python list of n paragraphs: the 1-based index,
\* or 0 where Python raises IndexError
ListIndex(n, para_id) ==
    IF para_id >= 0 THEN para_id + 1
    ELSE IF para_id >= -n THEN n + para_id + 1
    ELSE 0

RECURSIVE ApplyGroups(_, _, _)
\* lines 89-135: the loop over redactions_by_para; raised tells whether an
\* exception left the loop
ApplyGroups(paras, keys, reqs) ==
    IF keys = <<>> THEN [raised |-> FALSE, paras |-> paras]
    ELSE LET para_id == Head(keys)
             k       == ListIndex(Len(paras), para_id)
         IN  IF para_id < Len(paras)
             THEN IF k = 0
                  THEN [raised |-> TRUE, paras |-> paras]
                  ELSE ApplyGroups(
                         [paras EXCEPT ![k] = RedactParagraph(@, Group(reqs, para_id))],
                         Tail(keys), reqs)
             ELSE ApplyGroups(paras, Tail(keys), reqs)

\* lines 78-135 on the parsed document
RedactDocument(paras, reqs) == ApplyGroups(paras, GroupKeys(reqs), reqs)

----------------------------------------------------------------------------
(* Archives and files *)

DocumentPart == "word/document.xml"

\* The content of an archive entry.  kind tells how the bytes were made:
\* "blob" (any part other than the document, bytes stands for its content),
\* "uploaded" (document XML as uploaded, parsing to paras), "etree" (the
\* declaration of line 140 followed by ET.tostring of paras) and "malformed"
\* (bytes that ET.fromstring rejects).
Blob(b) == [kind |-> "blob", bytes |-> b, paras |-> <<>>]

DocumentXml(paras) == [kind |-> "uploaded", bytes |-> 0, paras |-> paras]

MalformedXml == [kind |-> "malformed", bytes |-> 0, paras |-> <<>>]

\* lines 138-141: ET.tostring of the tree behind the hand-written declaration
Serialize(paras) == [kind |-> "etree", bytes |-> 0, paras |-> paras]

Entry(name, data) == [filename |-> name, data |-> data]

\* A file of the temp directory: absent, a ZIP archive with its entries in
\* archive order, or a non-empty file that is no ZIP archive
NoFile == [exists |-> FALSE, iszip |-> FALSE, entries |-> <<>>]

Zip(entries) == [exists |-> TRUE, iszip |-> TRUE, entries |-> entries]

NotAZip == [exists |-> TRUE, iszip |-> FALSE, entries |-> <<>>]

\* ZipFile.NameToInfo: the index of the last entry of that name, 0 if none
NameToInfo(entries, name) ==
    LET hits == {i \in 1..Len(entries) : entries[i].filename = name}
    IN  IF hits = {} THEN 0 ELSE CHOOSE i \in hits : \A j \in hits : j <= i

\* original_zip.read(name): a name is looked up through NameToInfo
ZipRead(entries, name) == entries[NameToInfo(entries, name)].data

\* lines 61-63: every entry but the document part is written under its own
\* ZipInfo with the bytes read back by name
CopyOthers(entries) ==
    LET others == SelectSeq(entries, LAMBDA e : e.filename # DocumentPart)
    IN  [i \in 1..Len(others) |->
            Entry(others[i].filename, ZipRead(entries, others[i].filename))]

\* create_redacted_docx with the handler of line 145 returning True
create_reports_success(orig, reqs, before) ==
    IF ~orig.iszip
    THEN [success |-> TRUE, output |-> before]
    ELSE LET copied == CopyOthers(orig.entries)
             doc    == ZipRead(orig.entries, DocumentPart)
             res    == RedactDocument(doc.paras, reqs)
         IN  IF \/ NameToInfo(orig.entries, DocumentPart) = 0
                \/ doc.kind \notin {"uploaded", "etree"}
                \/ res.raised
             THEN [success |-> TRUE, output |-> Zip(copied)]
             ELSE [success |-> TRUE,
                   output  |-> Zip(Append(copied,
                                  Entry(DocumentPart, Serialize(res.paras))))]

\* create_redacted_docx(original_path, redactions, output_path); before is
\* the file at output_path when the call starts.  Every exception is caught
\* at line 145; the archive opened for writing at line 59 is closed on the
\* way out and keeps the entries written so far.
create_redacted_docx(orig, reqs, before) ==
    IF ~orig.iszip
    THEN [success |-> FALSE, output |-> before]
    ELSE LET copied == CopyOthers(orig.entries)
             failed == [success |-> FALSE, output |-> Zip(copied)]
         IN  IF NameToInfo(orig.entries, DocumentPart) = 0
             THEN failed
             ELSE LET doc == ZipRead(orig.entries, DocumentPart)
                      res == RedactDocument(doc.paras, reqs)
                  IN  IF doc.kind \notin {"uploaded", "etree"}
                      THEN failed
                      ELSE IF res.raised
                      THEN failed
                      ELSE [success |-> TRUE,
                            output  |-> Zip(Append(copied,
                                       Entry(DocumentPart, Serialize(res.paras))))]

\* extract_text_from_docx(docx_path): [] on any exception
extract_text_from_docx(file) ==
    IF ~file.iszip \/ NameToInfo(file.entries, DocumentPart) = 0
    THEN <<>>
    ELSE LET doc == ZipRead(file.entries, DocumentPart)
         IN  IF doc.kind \notin {"uploaded", "etree"} THEN <<>>
             ELSE ExtractParagraphs(doc.paras)

----------------------------------------------------------------------------
(* HTTP handlers *)

\* the file <filename>_redactions.json
NoBatch == [exists |-> FALSE, redactions |-> <<>>]

SavedBatch(reqs) == [exists |-> TRUE, redactions |-> reqs]

\* What a handler returns: the status and, for send_file, the file sent
NoResponse == [status |-> 0, package |-> NoFile]

Json(status) == [status |-> status, package |-> NoFile]

SendFile(file) == [status |-> 200, package |-> file]

\* lines 219-220 with the file opened for appending: a mark adds to the batch
SaveAppending(reqs) ==
    [exists |-> TRUE, redactions |-> redaction_file.redactions \o reqs]

\* lines 209-220: the file is opened with 'w' and holds the posted batch only
Save(reqs) == SavedBatch(reqs)

\* POST /upload: upload_file with a .docx file.  The name the file is stored
\* under is new with every upload (line 165), so one identifier is uploaded
\* once; the file stays stored when the extraction yields nothing.
upload_file(file) ==
    /\ ~original.exists
    /\ original' = file
    /\ redaction_file' = NoBatch
    /\ content' = extract_text_from_docx(file)
    /\ response' = IF extract_text_from_docx(file) = <<>> THEN Json(500) ELSE Json(200)
    /\ UNCHANGED <<redactions, output, success, posted>>

\* POST /redact: apply_redaction with a body naming the uploaded file
apply_redaction(reqs) ==
    /\ posted' = reqs
    /\ IF ~original.exists
       THEN /\ response' = Json(404)
            /\ UNCHANGED redaction_file
       ELSE /\ redaction_file' = Save(reqs)
            /\ response' = Json(200)
    /\ UNCHANGED <<original, redactions, output, success, content>>

\* lines 245-249: the batch the download handler loads
LoadedBatch == IF redaction_file.exists THEN redaction_file.redactions ELSE <<>>

\* line 268 with the test dropped: every download goes through the engine
UsesEngineAlways(loaded) == TRUE

\* line 268, "if redactions:": an empty batch takes the copy branch
UsesEngine(loaded) == loaded # <<>>

\* lines 282-287 left out: the redaction file survives the download
CleanupOmitted(batchfile) == batchfile

\* lines 282-287: the redaction file is removed once the output exists
Cleanup(batchfile) == NoBatch

\* GET /download/docx/<filename>: download_redacted_docx
download_redacted_docx ==
    IF ~original.exists
    THEN /\ response' = Json(404)
         /\ UNCHANGED <<original, redaction_file, redactions, output, success,
                        content, posted>>
    ELSE LET loaded  == LoadedBatch
             created == create_redacted_docx(original, loaded, output)
         IN  /\ redactions' = loaded
             /\ UNCHANGED <<original, content, posted>>
             /\ IF UsesEngine(loaded)
                THEN /\ success' = created.success
                     /\ output' = created.output
                     /\ IF ~created.success
                        THEN /\ response' = Json(500)
                             /\ UNCHANGED redaction_file
                        ELSE /\ redaction_file' = Cleanup(redaction_file)
                             /\ response' = SendFile(created.output)
                ELSE \* shutil.copy2(filepath, output_path)
                     /\ output' = original
                     /\ redaction_file' = Cleanup(redaction_file)
                     /\ response' = SendFile(original)
                     /\ UNCHANGED success

----------------------------------------------------------------------------
(* Inputs *)

Req(p, s, e) == [paragraphId |-> p, startPos |-> s, endPos |-> e]

\* paragraph ids: in range, past the end, negative within -n..-1 and below -n
ParaIds == {-(MaxParas + 1), -1} \cup 0..MaxParas

\* the offsets are varied on paragraph 0, the paragraph id on the range [0, 1)
Requests ==
    {Req(0, s, e) : s \in -1..MaxLen, e \in 0..(MaxLen + 1)}
    \cup {Req(p, 0, 1) : p \in ParaIds}

Batches == UNION {[1..n -> Requests] : n \in 0..MaxBatch}

\* Paragraph shapes
OneRun(text) == <<R(<<T(text)>>)>>

TwoRuns(text, k) ==
    <<R(<<T(Slice(text, 0, k))>>), R(<<T(Slice(text, k, Len(text)))>>)>>

NoRuns == <<>>

EmptyRunFirst(text) == <<R(<<>>), R(<<T(text)>>)>>

BareText(text) == <<T(text)>>

NestedRun(text) == <<R(<<R(<<T(text)>>)>>)>>

\* every text node of such a paragraph lies in exactly one run
PlainParagraphs ==
    {OneRun(Prefix(n)) : n \in 0..MaxLen}
    \cup UNION {{TwoRuns(Prefix(n), k) : k \in 1..(n - 1)} : n \in 2..MaxLen}
    \cup {NoRuns, EmptyRunFirst(Prefix(1))}

Paragraphs == PlainParagraphs \cup {BareText(Prefix(MaxLen)), NestedRun(Prefix(1))}

Documents ==
    {<<p>> : p \in Paragraphs}
    \cup UNION {[1..n -> {OneRun(Prefix(m)) : m \in 1..MaxLen}] : n \in 2..MaxParas}

Package(paras) ==
    Zip(<<Entry("[Content_Types].xml", Blob(1)),
          Entry(DocumentPart, DocumentXml(paras)),
          Entry("word/styles.xml", Blob(2))>>)

\* Archives whose layout is not the usual one
OddArchives ==
    { NotAZip,
      Zip(<<Entry("word/styles.xml", Blob(2))>>),
      Zip(<<Entry("word/styles.xml", Blob(2)), Entry(DocumentPart, MalformedXml)>>),
      Zip(<<Entry("docProps/app.xml", Blob(1)),
            Entry(DocumentPart, DocumentXml(<<OneRun(Prefix(MaxLen))>>)),
            Entry("docProps/app.xml", Blob(2))>>) }

Archives == {Package(d) : d \in Documents} \cup OddArchives

\* The scenarios of the specification's section 8
SecretText ==
    <<72, 101, 108, 108, 111, 32, 87, 111, 114, 108, 100, 44, 32, 116, 104,
      105, 115, 32, 105, 115, 32, 115, 101, 99, 114, 101, 116, 46>>

SecretPackage == Package(<<OneRun(SecretText)>>)

SecretBatch == <<Req(0, 22, 28)>>

OverlapPackage == Package(<<OneRun(Prefix(6))>>)

OverlapBatch == <<Req(0, 1, 4), Req(0, 2, 6)>>

\* a create_redacted_docx that has not run
NotCreated == [success |-> FALSE, output |-> NoFile]

\* the other route modules have done nothing
NoVariants ==
    /\ debug_created = NotCreated
    /\ minimal_content = <<>>
    /\ minimal_created = NotCreated

----------------------------------------------------------------------------
(* The engine alone: create_redacted_docx on every drawn package and batch *)

InitEngine ==
    /\ \/ original \in Archives /\ redactions \in Batches
       \/ original = SecretPackage /\ redactions = SecretBatch
       \/ original = OverlapPackage /\ redactions = OverlapBatch
    /\ redaction_file = NoBatch
    /\ output = NoFile
    /\ success = FALSE
    /\ response = NoResponse
    /\ content = <<>>
    /\ posted = <<>>
    /\ fs = <<>> /\ store = <<>> /\ thread = <<>> /\ now = 0 /\ served = 0
    /\ NoVariants

CreateRedactedDocx ==
    LET created == create_redacted_docx(original, redactions, output)
    IN  /\ success' = created.success
        /\ output' = created.output
        /\ UNCHANGED <<original, redaction_file, redactions, response,
                       content, posted>>
        /\ UNCHANGED <<concvars, variantvars>>

NextEngine == CreateRedactedDocx

SpecEngine == InitEngine /\ [][NextEngine]_vars

----------------------------------------------------------------------------
(* The handlers: /upload once, /redact and /download/docx in any order      *)

\* the batches a client posts in the handler specification: of a request on
\* the first character, one past the longest text and one past the last
\* paragraph
PostedRequests == {Req(0, 0, 1), Req(0, 0, MaxLen + 1), Req(MaxParas, 0, 1)}

PostedBatches == UNION {[1..n -> PostedRequests] : n \in 0..MaxBatch}

\* the packages a client uploads: the drawn archives and two documents whose
\* first paragraph holds a single space or nothing
UploadedArchives ==
    Archives \cup {Package(<<OneRun(<<32>>), OneRun(Prefix(1))>>),
                   Package(<<NoRuns, OneRun(Prefix(1))>>)}

Init ==
    /\ original = NoFile
    /\ redaction_file = NoBatch
    /\ redactions = <<>>
    /\ output = NoFile
    /\ success = FALSE
    /\ response = NoResponse
    /\ content = <<>>
    /\ posted = <<>>
    /\ fs = <<>> /\ store = <<>> /\ thread = <<>> /\ now = 0 /\ served = 0
    /\ NoVariants

Upload == (\E file \in UploadedArchives : upload_file(file)) /\ UNCHANGED <<concvars, variantvars>>

Redact == (\E reqs \in PostedBatches : apply_redaction(reqs)) /\ UNCHANGED <<concvars, variantvars>>

Download == download_redacted_docx /\ UNCHANGED <<concvars, variantvars>>

Next == Upload \/ Redact \/ Download

Spec == Init /\ [][Next]_vars

----------------------------------------------------------------------------
(* Vocabulary of the properties *)

\* the file is an archive whose document part parses
HasDocument(file) ==
    /\ file.iszip
    /\ NameToInfo(file.entries, DocumentPart) # 0
    /\ ZipRead(file.entries, DocumentPart).kind \in {"uploaded", "etree"}

DocParas(file) == ZipRead(file.entries, DocumentPart).paras

\* the text of every paragraph, as extract_text_from_docx reports it
Texts(paras) == [k \in 1..Len(paras) |-> ParagraphText(paras[k])]

InParas == DocParas(original)

OutParas == DocParas(output)

\* the paragraph id names a paragraph of a document of n paragraphs
InRange(r, n) == r.paragraphId \in 0..(n - 1)

\* 0 <= startPos < endPos <= len(text)
ValidRange(r, text) ==
    /\ 0 <= r.startPos
    /\ r.startPos < r.endPos
    /\ r.endPos <= Len(text)

\* the request is one the specification accepts for the document
ValidFor(r, paras) ==
    /\ InRange(r, Len(paras))
    /\ ValidRange(r, ParagraphText(paras[r.paragraphId + 1]))

\* every text node of every paragraph lies in exactly one run, so that the
\* extracted text is the text the offsets are applied to
Plain(paras) == \A k \in 1..Len(paras) : FullText(paras[k]) = ParagraphText(paras[k])

\* create_redacted_docx has run on a package whose document part parses
Created == HasDocument(original) /\ output.exists

\* s with the characters [lo, hi) replaced by hi - lo full blocks
WithFullBlocks(text, lo, hi) ==
    Slice(text, 0, lo) \o [i \in 1..(hi - lo) |-> FullBlock] \o Slice(text, hi, Len(text))

----------------------------------------------------------------------------
(* Properties of create_redacted_docx, checked under SpecEngine *)

\* C1: a batch holding one valid request [s, e) turns a paragraph of text T
\* into T[0:s] + (e-s times U+2588) + T[e:], a text of len(T) characters.
C1_LengthPreservation ==
    (/\ Created
     /\ Plain(InParas)
     /\ Len(redactions) = 1
     /\ ValidFor(redactions[1], InParas))
    => LET r == redactions[1]
           k == r.paragraphId + 1
           t == ParagraphText(InParas[k])
       IN  /\ success
           /\ ParagraphText(OutParas[k]) = WithFullBlocks(t, r.startPos, r.endPos)
           /\ Len(ParagraphText(OutParas[k])) = Len(t)

\* the entries of an archive other than the document part, in archive order
OtherEntries(file) == SelectSeq(file.entries, LAMBDA e : e.filename # DocumentPart)

\* C2: the archive written holds every entry of the input other than
\* word/document.xml exactly once, with the input entry's bytes and in the
\* input's order; none is dropped or added.
C2_NonTargetFidelity ==
    (original.iszip /\ output.exists)
    => OtherEntries(output) = OtherEntries(original)

\* C3: with rejected and valid requests mixed in one batch the operation does
\* not abort, and every paragraph's final text is the one obtained from the
\* valid requests of the batch alone.
C3_BadRequestsIsolated ==
    (/\ Created
     /\ Plain(InParas)
     /\ \E i \in 1..Len(redactions) : ValidFor(redactions[i], InParas)
     /\ \E i \in 1..Len(redactions) : ~ValidFor(redactions[i], InParas))
    => LET valid == SelectSeq(redactions, LAMBDA r : ValidFor(r, InParas))
       IN  /\ success
           /\ Texts(OutParas) = Texts(RedactDocument(InParas, valid).paras)

\* the diagnostics list a response carries (none when the field is absent)
DiagnosticsOf(resp) ==
    IF "diagnostics" \in DOMAIN resp THEN resp.diagnostics ELSE <<>>

\* the requests of a batch the specification rejects for the document
Rejected(reqs, paras) == SelectSeq(reqs, LAMBDA r : ~ValidFor(r, paras))

\* C4: a download that returns the rewritten package returns with it a
\* diagnostics list holding exactly one entry per rejected request.
C4_DiagnosticsReturned ==
    (response.status = 200 /\ response.package.exists /\ HasDocument(original))
    => Len(DiagnosticsOf(response)) = Len(Rejected(redactions, InParas))

\* C5: a request whose paragraphId is below 0 or at least n changes no
\* paragraph, and the rest of the batch is still processed.
C5_OutOfRangeIgnored ==
    Created
    => LET inrange == SelectSeq(redactions, LAMBDA r : InRange(r, Len(InParas)))
       IN  /\ success
           /\ OutParas = RedactDocument(InParas, inrange).paras

\* C6: a request for an in-range paragraph whose offsets violate
\* 0 <= startPos < endPos <= len(flatText), flatText being the text as
\* extracted, contributes no change, whatever else the batch holds.
C6_InvalidRangeIgnored ==
    (/\ Created
     /\ Plain(InParas)
     /\ \A i \in 1..Len(redactions) : InRange(redactions[i], Len(InParas)))
    => LET kept == SelectSeq(redactions,
                     LAMBDA r : ValidRange(r, ParagraphText(InParas[r.paragraphId + 1])))
       IN  /\ success
           /\ Texts(OutParas) = Texts(RedactDocument(InParas, kept).paras)

C10_Idempotent ==
    (/\ Created
     /\ Plain(InParas)
     /\ redactions # <<>>
     /\ ValidFor(redactions[1], InParas)
     /\ \A i \in 1..Len(redactions) : redactions[i] = redactions[1])
    => LET r    == redactions[1]
           k    == r.paragraphId + 1
           once == RedactParagraph(InParas[k], <<r>>)
       IN  /\ success
           /\ ParagraphText(OutParas[k]) = ParagraphText(once)
           /\ ParagraphText(RedactParagraph(OutParas[k], <<r>>))
                = ParagraphText(OutParas[k])

----------------------------------------------------------------------------
(* Properties of the handlers, checked under Spec *)

\* the document part of a file, as a sequence of at most one element
DocumentPartOf(file) ==
    IF file.iszip /\ NameToInfo(file.entries, DocumentPart) # 0
    THEN <<ZipRead(file.entries, DocumentPart)>>
    ELSE <<>>

\* C7: a docx download with an empty batch (none saved, or one saved with
\* zero requests) returns a package whose word/document.xml is the input's,
\* bytes and paragraphs alike.
C7_EmptyBatchIdentity ==
    (response.package.exists /\ redactions = <<>>)
    => /\ response.status = 200
       /\ DocumentPartOf(response.package) = DocumentPartOf(original)
       /\ HasDocument(original) => DocParas(response.package) = InParas

C7_Witness ==
    /\ response.package.exists
    /\ redactions = <<>>
    /\ HasDocument(original)
    /\ \E k \in 1..Len(InParas) : ParagraphText(InParas[k]) # <<>>
    /\ ~redaction_file.exists

----------------------------------------------------------------------------
(* Round trip and order of the batch, checked under SpecEngine *)

\* the requests of the batch the specification accepts for paragraph k
AcceptedFor(reqs, paras, k) ==
    SelectSeq(reqs, LAMBDA r : ValidFor(r, paras) /\ r.paragraphId = k - 1)

\* C11: extract_text_from_docx on the package written returns, for every
\* paragraph with at least one accepted request, a text as long as the one
\* it returned for that paragraph of the input package.
C11_RoundTripLength ==
    (Created /\ success /\ Plain(InParas))
    => LET before == extract_text_from_docx(original)
           after  == extract_text_from_docx(output)
       IN  /\ Len(after) = Len(before)
           /\ \A k \in 1..Len(before) :
                AcceptedFor(redactions, InParas, k) # <<>>
                => Len(after[k].text) = Len(before[k].text)

\* the ranges of two requests share no character
Disjoint(r, q) == r.endPos <= q.startPos \/ q.endPos <= r.startPos

\* the batch holds valid, pairwise non-overlapping requests on one paragraph
NonOverlappingBatch(reqs, paras) ==
    /\ \A i \in 1..Len(reqs) :
         ValidFor(reqs[i], paras) /\ reqs[i].paragraphId = reqs[1].paragraphId
    /\ \A i, j \in 1..Len(reqs) : i # j => Disjoint(reqs[i], reqs[j])

\* the batch with its requests rearranged by the permutation p
Permuted(reqs, p) == [i \in 1..Len(reqs) |-> reqs[p[i]]]

\* C12: for a batch of valid, pairwise non-overlapping requests on one
\* paragraph every permutation of the batch yields the text the batch
\* yielded.
C12_OrderIndependent ==
    (Created /\ NonOverlappingBatch(redactions, InParas))
    => /\ success
       /\ \A p \in Permutations(1..Len(redactions)) :
            LET res == RedactDocument(InParas, Permuted(redactions, p))
            IN  ~res.raised /\ Texts(res.paras) = Texts(OutParas)

\* two non-overlapping requests given in ascending order, both applied
C12_Witness ==
    /\ Created
    /\ success
    /\ Len(redactions) = 2
    /\ NonOverlappingBatch(redactions, InParas)
    /\ redactions[1].startPos < redactions[2].startPos
    /\ ParagraphText(OutParas[redactions[1].paragraphId + 1])
         # ParagraphText(InParas[redactions[1].paragraphId + 1])

----------------------------------------------------------------------------
(* Extraction, store and lifecycle of the batch, checked under Spec *)

\* C13: extract_text_from_docx returns one entry per paragraph element, in
\* document order, paragraphs of empty or blank text included, and the id of
\* the k-th entry is its index, counted from 0.
C13_OneEntryPerParagraph ==
    (original.exists /\ HasDocument(original))
    => /\ Len(content) = Len(InParas)
       /\ \A k \in 1..Len(content) :
            /\ content[k].id = k - 1
            /\ content[k].text = ParagraphText(InParas[k])

\* a blank first paragraph is listed and the paragraph after it has id 1
C13_Witness ==
    /\ original.exists
    /\ HasDocument(original)
    /\ Len(content) = 2
    /\ Blank(content[1].text)
    /\ content[2].id = 1
    /\ content[2].text # <<>>

\* the step is one of the download handler on an uploaded identifier: its
\* response is not the JSON answer of /redact
DownloadStep == original.exists /\ response' # Json(200)

\* C14: the store holds at most one batch per identifier, the one of the
\* most recent mark (a second mark replaces the first), and a download loads
\* the batch of the most recent mark not cleared since, the empty batch if
\* there is none.
C14_StoreHoldsLastMark ==
    [][/\ redaction_file'.exists => redaction_file'.redactions = posted'
       /\ DownloadStep
          => redactions' = IF redaction_file.exists THEN posted ELSE <<>>]_vars

\* a download has loaded and applied the batch of the last mark
C14_Witness ==
    /\ response.package.exists
    /\ redactions # <<>>
    /\ redactions = posted
    /\ ~redaction_file.exists

C19_AbortKeepsStore ==
    [][(/\ DownloadStep
        /\ ~HasDocument(original)
        /\ redaction_file.exists
        /\ redaction_file.redactions # <<>>)
       => /\ response'.status = 500
          /\ ~response'.package.exists
          /\ original' = original
          /\ redaction_file' = redaction_file]_vars

C19_Witness ==
    /\ original.exists
    /\ ~HasDocument(original)
    /\ response.status = 500
    /\ redaction_file.exists
    /\ redactions = redaction_file.redactions
    /\ redactions # <<>>

----------------------------------------------------------------------------
(* The handlers running concurrently: each request is served by a thread of *)
(* the server, and a handler is a sequence of file operations               *)

\* the last second of the model's clock
MaxClock == 1

\* the number of /redact and /download requests of a run
MaxRequests == 3

\* two requests are in flight at a time
Threads == {"t1", "t2"}

\* the uuid parts of the uploaded documents' names
UniqueIds == {"A", "B"}

\* line 164: "{timestamp}_{unique_id}_{original_filename}". The timestamp of
\* the upload is left at 0: unique_id tells the names apart and line 259
\* drops both parts.
Filename(unique_id, original_filename) ==
    [redacted |-> FALSE, timestamp |-> 0, unique_id |-> unique_id,
     original_filename |-> original_filename]

\* the output is written over the uploaded file
OutputPathInPlace(filename, timestamp) == filename

\* lines 255-265: "redacted_{timestamp}_{original_name}", original_name being
\* the third part of the document's file name
OutputPath(filename, timestamp) ==
    [redacted |-> TRUE, timestamp |-> timestamp, unique_id |-> "",
     original_filename |-> filename.original_filename]

\* the package the client uploads as document A or B
PackageOf(unique_id) ==
    IF unique_id = "A" THEN Package(<<OneRun(Prefix(1))>>)
                       ELSE Package(<<OneRun(Prefix(2))>>)

\* the original file names: A is x.docx, B is x.docx or y.docx
NamesOf(unique_id) ==
    IF unique_id = "A" THEN {"x.docx"} ELSE {"x.docx", "y.docx"}

\* the batches posted: one that is applied, one whose paragraph id raises
ConcBatches == {<<Req(0, 0, 1)>>, <<Req(-2, 0, 1)>>}

\* a file opened for writing and not closed: the entries written so far and
\* no central directory
Partial(entries) == [exists |-> TRUE, iszip |-> FALSE, entries |-> entries]

\* a file two writers had open at once: bytes of both
Torn == Partial(<<Entry("", Blob(0))>>)

\* os.path.getsize
getsize(file) ==
    IF file.iszip THEN Len(file.entries) + 1 ELSE Len(file.entries)

\* a redaction file: its content and whether it is a complete JSON text
Stored(batchfile, complete) == [file |-> batchfile, complete |-> complete]

\* line 219: open(redaction_file, 'w') leaves an empty file until the dump
Truncated == Stored(SavedBatch(<<>>), FALSE)

Uploaded == {f \in DOMAIN fs : ~f.redacted}

\* a write to the folder: the file at path is replaced or created
Write(path, file) ==
    [p \in DOMAIN fs \cup {path} |-> IF p = path THEN file ELSE fs[p]]

Idle ==
    [pc |-> "idle", filename |-> Filename("", ""), redactions |-> <<>>,
     output_path |-> Filename("", ""), raced |-> FALSE, unlinked |-> FALSE,
     resp |-> NoResponse]

Done(resp) == [Idle EXCEPT !.pc = "done", !.resp = resp]

\* the threads that have the file of thread t open for writing
Writers(t, pc, field, path) ==
    {u \in Threads \ {t} : thread[u].pc = pc /\ thread[u][field] = path}

InitConc ==
    /\ original = NoFile
    /\ redaction_file = NoBatch
    /\ redactions = <<>>
    /\ output = NoFile
    /\ success = FALSE
    /\ response = NoResponse
    /\ content = <<>>
    /\ posted = <<>>
    /\ fs = <<>>
    /\ store = <<>>
    /\ thread = [t \in Threads |-> Idle]
    /\ now = 0
    /\ served = 0
    /\ NoVariants

\* time.time() passes a second boundary
Tick ==
    /\ now < MaxClock
    /\ now' = now + 1
    /\ UNCHANGED <<fs, store, thread, served>>
    /\ UNCHANGED <<seqvars, variantvars>>

\* upload_file, lines 161-173: the file is saved under a fresh name and has
\* no redaction file
ConcUpload ==
    /\ \E unique_id \in UniqueIds : \E name \in NamesOf(unique_id) :
         LET filename == Filename(unique_id, name)
         IN  /\ \A f \in Uploaded : f.unique_id # unique_id
             /\ fs' = Write(filename, PackageOf(unique_id))
             /\ store' = [f \in DOMAIN store \cup {filename} |->
                            IF f = filename THEN Stored(NoBatch, TRUE)
                                            ELSE store[f]]
    /\ UNCHANGED <<thread, now, served>>
    /\ UNCHANGED <<seqvars, variantvars>>

\* apply_redaction, line 219: the redaction file is opened with 'w'
RedactOpen(t) ==
    /\ thread[t].pc = "idle"
    /\ served < MaxRequests
    /\ served' = served + 1
    /\ \E filename \in Uploaded : \E reqs \in ConcBatches :
         LET others == Writers(t, "marking", "filename", filename)
         IN  /\ store' = [store EXCEPT ![filename] = Truncated]
             /\ thread' = [u \in Threads |->
                   IF u = t
                   THEN [Idle EXCEPT !.pc = "marking", !.filename = filename,
                                     !.redactions = reqs,
                                     !.raced = (others # {})]
                   ELSE IF u \in others
                   THEN [thread[u] EXCEPT !.raced = TRUE, !.unlinked = FALSE]
                   ELSE thread[u]]
    /\ UNCHANGED <<fs, now>>
    /\ UNCHANGED <<seqvars, variantvars>>

\* apply_redaction, lines 220-228: json.dump, close, the JSON answer. A file
\* removed since line 219 stays removed; a file another /redact had open at
\* the same time holds this batch or bytes of both.
RedactClose(t) ==
    /\ thread[t].pc = "marking"
    /\ LET filename == thread[t].filename
           own      == Stored(Save(thread[t].redactions), TRUE)
       IN  \E written \in (IF thread[t].raced THEN {own, Truncated} ELSE {own}) :
              store' = IF thread[t].unlinked THEN store
                       ELSE [store EXCEPT ![filename] = written]
    /\ thread' = [thread EXCEPT ![t] = Done(Json(200))]
    /\ UNCHANGED <<fs, now, served>>
    /\ UNCHANGED <<seqvars, variantvars>>

\* download_redacted_docx, lines 240-252: the batch is loaded; json.load
\* raises on a file that is no complete JSON text, outside the try block
DownloadLoad(t) ==
    /\ thread[t].pc = "idle"
    /\ served < MaxRequests
    /\ served' = served + 1
    /\ \E filename \in Uploaded :
         thread' = [thread EXCEPT ![t] =
            IF store[filename].file.exists /\ ~store[filename].complete
            THEN Done(Json(500))
            ELSE [Idle EXCEPT !.pc = "loaded", !.filename = filename,
                     !.redactions =
                        IF store[filename].file.exists
                        THEN store[filename].file.redactions ELSE <<>>]]
    /\ UNCHANGED <<fs, store, now>>
    /\ UNCHANGED <<seqvars, variantvars>>

\* lines 255-265, then line 59 or the open of shutil.copy2: output_path is
\* opened for writing and is an empty file from here on
DownloadOpen(t) ==
    /\ thread[t].pc = "loaded"
    /\ LET path   == OutputPath(thread[t].filename, now)
           others == Writers(t, "writing", "output_path", path)
       IN  /\ fs' = Write(path, Partial(<<>>))
           /\ thread' = [u \in Threads |->
                 IF u = t
                 THEN [thread[t] EXCEPT !.pc = "writing", !.output_path = path,
                                        !.raced = (others # {})]
                 ELSE IF u \in others
                 THEN [thread[u] EXCEPT !.raced = TRUE]
                 ELSE thread[u]]
    /\ UNCHANGED <<store, now, served>>
    /\ UNCHANGED <<seqvars, variantvars>>

\* lines 61-143 or the copy of shutil.copy2, then the close. A file another
\* download had open at the same time holds this output or bytes of both.
DownloadWrite(t) ==
    /\ thread[t].pc = "writing"
    /\ LET source == fs[thread[t].filename]
           path   == thread[t].output_path
           built  == IF UsesEngine(thread[t].redactions)
                     THEN create_redacted_docx(source, thread[t].redactions,
                                               fs[path])
                     ELSE [success |-> TRUE, output |-> source]
       IN  /\ \E written \in (IF thread[t].raced THEN {built.output, Torn}
                                                ELSE {built.output}) :
                 fs' = Write(path, written)
           /\ thread' = [thread EXCEPT ![t] =
                 IF built.success THEN [thread[t] EXCEPT !.pc = "created"]
                                  ELSE Done(Json(500))]
    /\ UNCHANGED <<store, now, served>>
    /\ UNCHANGED <<seqvars, variantvars>>

\* lines 277-291: the output is checked and the redaction file removed
DownloadVerify(t) ==
    /\ thread[t].pc = "created"
    /\ LET filename == thread[t].filename
           created  == fs[thread[t].output_path]
       IN  IF created.exists /\ getsize(created) > 0
           THEN /\ store' = [store EXCEPT ![filename] =
                               Stored(Cleanup(store[filename].file), TRUE)]
                /\ thread' = [u \in Threads |->
                      IF u = t THEN [thread[t] EXCEPT !.pc = "verified"]
                      ELSE IF /\ thread[u].pc = "marking"
                              /\ thread[u].filename = filename
                      THEN [thread[u] EXCEPT !.unlinked = TRUE]
                      ELSE thread[u]]
           ELSE /\ thread' = [thread EXCEPT ![t] = Done(Json(500))]
                /\ UNCHANGED store
    /\ UNCHANGED <<fs, now, served>>
    /\ UNCHANGED <<seqvars, variantvars>>

\* line 289: send_file reads what is at output_path now
DownloadSend(t) ==
    /\ thread[t].pc = "verified"
    /\ thread' = [thread EXCEPT ![t] =
          [thread[t] EXCEPT !.pc = "done",
                            !.resp = SendFile(fs[thread[t].output_path])]]
    /\ UNCHANGED <<fs, store, now, served>>
    /\ UNCHANGED <<seqvars, variantvars>>

\* the response has gone out and the thread takes the next request
Return(t) ==
    /\ thread[t].pc = "done"
    /\ thread' = [thread EXCEPT ![t] = Idle]
    /\ UNCHANGED <<fs, store, now, served>>
    /\ UNCHANGED <<seqvars, variantvars>>

NextConc ==
    \/ Tick
    \/ ConcUpload
    \/ \E t \in Threads : RedactOpen(t)
    \/ \E t \in Threads : RedactClose(t)
    \/ \E t \in Threads : DownloadLoad(t)
    \/ \E t \in Threads : DownloadOpen(t)
    \/ \E t \in Threads : DownloadWrite(t)
    \/ \E t \in Threads : DownloadVerify(t)
    \/ \E t \in Threads : DownloadSend(t)
    \/ \E t \in Threads : Return(t)

SpecConc == InitConc /\ [][NextConc]_vars

----------------------------------------------------------------------------
(* Properties of the concurrent handlers, checked under SpecConc *)

\* the packages a download of the document may return: the original and the
\* results of create_redacted_docx for one whole posted batch
Allowed(filename) ==
    LET source == PackageOf(filename.unique_id)
    IN  {source} \cup
        {create_redacted_docx(source, reqs, NoFile).output :
           reqs \in {b \in ConcBatches :
                       create_redacted_docx(source, b, NoFile).success}}

\* the download of thread t has answered with a package
Returned(t) == thread[t].pc = "done" /\ thread[t].resp.package.exists

\* the archive is closed and has its document part
Complete(file) == file.iszip /\ NameToInfo(file.entries, DocumentPart) # 0

OutputPaths == {p \in DOMAIN fs : p.redacted}

\* C16: requests for one identifier are serialized: while no two documents
\* share an original file name, the package a download returns is the result
\* of applying one complete saved batch, or the empty batch, to its document.
C16_Serialized ==
    (\A f, g \in Uploaded : f # g => f.original_filename # g.original_filename)
    => \A t \in Threads :
          Returned(t) => thread[t].resp.package \in Allowed(thread[t].filename)

\* C17: package writing is atomic for an observer: whatever is at a path the
\* downloads are served from is a completely written archive, during a
\* download and after a failed create_redacted_docx.
C17_NoPartialVisible == \A p \in OutputPaths : Complete(fs[p])

\* C18: documents share no state: while the other requests in flight are for
\* other identifiers, the package returned for a document is made of its own
\* original and one of its own batches, whatever the original file names and
\* the second of the download.
C18_Independent ==
    \A t \in Threads :
       (/\ Returned(t)
        /\ \A u \in Threads \ {t} : thread[u].filename # thread[t].filename)
       => thread[t].resp.package \in Allowed(thread[t].filename)

\* C20: the output is a new artifact: no step of an upload, a mark or a
\* download, finished or failed, changes the bytes of an uploaded package.
C20_OriginalUnchanged ==
    [][\A f \in Uploaded : f \in DOMAIN fs' /\ fs'[f] = fs[f]]_vars

\* one download has failed and left its output behind, another has returned
\* a package, and the uploaded packages are what the clients sent
C20_Witness ==
    /\ \E t \in Threads : Returned(t)
    /\ \E p \in OutputPaths : fs[p].iszip /\ ~Complete(fs[p])
    /\ Uploaded # {}
    /\ \A f \in Uploaded : fs[f] = PackageOf(f.unique_id)

----------------------------------------------------------------------------
(* Where the text of a rewritten paragraph lies, checked under SpecEngine   *)
(* and Spec                                                                 *)

\* the elements of a sequence
Range(seq) == {seq[i] : i \in 1..Len(seq)}

\* the loop of line 89 reaches the k-th paragraph for some request
Rewritten(k) ==
    \E i \in 1..Len(redactions) :
       /\ redactions[i].paragraphId < Len(InParas)
       /\ ListIndex(Len(InParas), redactions[i].paragraphId) = k

\* the w:t elements below the first w:r of the paragraph
FirstRunTexts(para) ==
    LET run == Head(FindAll(para, "r"))
    IN  Range(FindFrom(NodeAt(para, run).kids, 1, "t", run))

\* C21: a rewritten paragraph with a run has all of its text in a text node
\* of its first run and every other text node empty; a rewritten paragraph
\* without runs is what it was.
C21_TextInFirstRun ==
    (Created /\ success)
    => \A k \in 1..Len(InParas) :
          Rewritten(k)
          => IF FindAll(InParas[k], "r") = <<>>
             THEN OutParas[k] = InParas[k]
             ELSE \E p \in FirstRunTexts(OutParas[k]) :
                     /\ NodeAt(OutParas[k], p).text = ParagraphText(OutParas[k])
                     /\ \A q \in Range(FindAll(OutParas[k], "t")) \ {p} :
                           NodeAt(OutParas[k], q).text = <<>>

\* C22: a paragraph whose requests all have invalid offsets is left as it
\* was, every text node with its own text.
C22_RejectedLeavesParagraph ==
    (/\ Created /\ success
     /\ Plain(InParas)
     /\ \A i \in 1..Len(redactions) : InRange(redactions[i], Len(InParas)))
    => \A k \in 1..Len(InParas) :
          (/\ Group(redactions, k - 1) # <<>>
           /\ \A r \in Range(Group(redactions, k - 1)) :
                 ~ValidRange(r, ParagraphText(InParas[k])))
          => OutParas[k] = InParas[k]

\* C23: for every paragraph the text extract_text_from_docx returned is the
\* full_text create_redacted_docx applies the offsets to.
C23_ExtractedIsFullText ==
    (original.exists /\ HasDocument(original))
    => \A k \in 1..Len(content) : content[k].text = FullText(InParas[k])

----------------------------------------------------------------------------
(* redaction_debug.py: create_redacted_docx, which differs from the one of  *)
(* redaction_final.py in its prints and in the literal of line 130          *)

\* redaction_debug.py lines 128-132 with the block string of redaction_final.py
DebugRedactOneMojibake(text, r) ==
    IF Accepts(text, r)
    THEN Slice(text, 0, r.startPos)
         \o Repeat(BLOCK, r.endPos - r.startPos)
         \o Slice(text, r.endPos, Len(text))
    ELSE text

\* redaction_debug.py lines 123-135: one request against the text as redacted
\* so far; the guard of line 128 is the one of redaction_final.py line 120
\* and the literal of line 130 is the one character U+2588
DebugRedactOne(text, r) ==
    IF Accepts(text, r)
    THEN Slice(text, 0, r.startPos)
         \o Repeat(<<FullBlock>>, r.endPos - r.startPos)
         \o Slice(text, r.endPos, Len(text))
    ELSE text

RECURSIVE DebugRedactText(_, _)
\* redaction_debug.py lines 121-137
DebugRedactText(text, reqs) ==
    IF reqs = <<>> THEN text
    ELSE DebugRedactText(DebugRedactOne(text, Head(reqs)), Tail(reqs))

\* redaction_debug.py lines 97-149: the body of the loop for one paragraph
DebugRedactParagraph(para, para_redactions) ==
    LET runs          == FindAll(para, "r")
        text_elements == TextElements(para, runs)
        full_text     == ConcatTexts(para, text_elements)
        redacted_text == DebugRedactText(full_text,
                                         SortByStartDesc(para_redactions))
        cleared       == ClearTexts(para, text_elements)
    IN  IF text_elements # <<>>
        THEN SetText(cleared, Head(text_elements), redacted_text)
        ELSE IF runs # <<>>
             THEN SubElement(cleared, Head(runs), T(redacted_text))
             ELSE cleared

RECURSIVE DebugApplyGroups(_, _, _)
\* redaction_debug.py lines 92-151: the loop over redactions_by_para
DebugApplyGroups(paras, keys, reqs) ==
    IF keys = <<>> THEN [raised |-> FALSE, paras |-> paras]
    ELSE LET para_id == Head(keys)
             k       == ListIndex(Len(paras), para_id)
         IN  IF para_id < Len(paras)
             THEN IF k = 0
                  THEN [raised |-> TRUE, paras |-> paras]
                  ELSE DebugApplyGroups(
                         [paras EXCEPT ![k] =
                             DebugRedactParagraph(@, Group(reqs, para_id))],
                         Tail(keys), reqs)
             ELSE DebugApplyGroups(paras, Tail(keys), reqs)

\* redaction_debug.py lines 77-151 on the parsed document
DebugRedactDocument(paras, reqs) ==
    DebugApplyGroups(paras, GroupKeys(reqs), reqs)

\* redaction_debug.py create_redacted_docx(original_path, redactions,
\* output_path)
debug_create_redacted_docx(orig, reqs, before) ==
    IF ~orig.iszip
    THEN [success |-> FALSE, output |-> before]
    ELSE LET copied == CopyOthers(orig.entries)
             failed == [success |-> FALSE, output |-> Zip(copied)]
         IN  IF NameToInfo(orig.entries, DocumentPart) = 0
             THEN failed
             ELSE LET doc == ZipRead(orig.entries, DocumentPart)
                      res == DebugRedactDocument(doc.paras, reqs)
                  IN  IF doc.kind \notin {"uploaded", "etree"}
                      THEN failed
                      ELSE IF res.raised
                      THEN failed
                      ELSE [success |-> TRUE,
                            output  |-> Zip(Append(copied,
                                       Entry(DocumentPart, Serialize(res.paras))))]

\* the requests of the two engines side by side: the offsets on paragraph 0,
\* a negative start, and the paragraph ids -1 and 1
VariantRequests ==
    {Req(0, s, e) : s \in 0..MaxLen, e \in 1..(MaxLen + 1)}
    \cup {Req(0, -1, 1), Req(-1, 0, 1), Req(1, 0, 1)}

VariantBatches == UNION {[1..n -> VariantRequests] : n \in 0..MaxBatch}

\* documents of one paragraph of every shape, and of two paragraphs
VariantArchives ==
    {Package(<<p>>) : p \in Paragraphs}
    \cup {Package(<<OneRun(Prefix(1)), OneRun(Prefix(MaxLen))>>)}
    \cup OddArchives

InitVariants ==
    /\ \/ original \in VariantArchives /\ redactions \in VariantBatches
       \/ original = OverlapPackage /\ redactions = OverlapBatch
    /\ redaction_file = NoBatch
    /\ output = NoFile
    /\ success = FALSE
    /\ response = NoResponse
    /\ content = <<>>
    /\ posted = <<>>
    /\ fs = <<>> /\ store = <<>> /\ thread = <<>> /\ now = 0 /\ served = 0
    /\ NoVariants

DebugCreateRedactedDocx ==
    /\ debug_created' =
          debug_create_redacted_docx(original, redactions, debug_created.output)
    /\ UNCHANGED <<seqvars, concvars, minimal_content, minimal_created>>

NextVariants == CreateRedactedDocx \/ DebugCreateRedactedDocx

SpecVariants == InitVariants /\ [][NextVariants]_vars

----------------------------------------------------------------------------
(* The two engines compared, checked under SpecVariants *)

DebugOutParas == DocParas(debug_created.output)

\* both engines have run on a package whose document part parses
BothCreated ==
    /\ Created /\ success
    /\ debug_created.success

\* C25: the engines of redaction_final.py and redaction_debug.py give every
\* paragraph the same final text, for every document and batch.
C25_SameFinalText == BothCreated => Texts(OutParas) = Texts(DebugOutParas)

\* the positions of a text covered by a request with valid offsets
Covered(reqs, text) ==
    {i \in 0..(Len(text) - 1) :
        \E r \in Range(reqs) :
           ValidRange(r, text) /\ r.startPos <= i /\ i < r.endPos}

\* the text with U+2588 at the positions given
Blocked(text, positions) ==
    [i \in 1..Len(text) |-> IF (i - 1) \in positions THEN FullBlock ELSE text[i]]

\* the requests the loop of line 92 applies to the k-th paragraph
Reaching(k) ==
    SelectSeq(redactions,
              LAMBDA r : /\ r.paragraphId < Len(InParas)
                         /\ ListIndex(Len(InParas), r.paragraphId) = k)

\* C26: the engine of redaction_debug.py turns a paragraph text T into a text
\* of the same length with U+2588 at the positions covered by at least one
\* request with 0 <= startPos < endPos <= len(T) and T's characters at the
\* others: overlapping requests redact the union of their ranges.
C26_DebugRedactsUnion ==
    (HasDocument(original) /\ debug_created.success /\ Plain(InParas))
    => \A k \in 1..Len(InParas) :
          LET text == FullText(InParas[k])
          IN  FullText(DebugOutParas[k]) = Blocked(text, Covered(Reaching(k), text))

\* two requests that overlap in part: all but the first character is blocked
C26_Witness ==
    /\ HasDocument(original)
    /\ debug_created.success
    /\ Len(InParas) = 1
    /\ Len(redactions) >= 2
    /\ \E i, j \in 1..Len(redactions) :
          LET a == redactions[i]
              b == redactions[j]
              text == FullText(InParas[1])
          IN  /\ ValidRange(a, text) /\ ValidRange(b, text)
              /\ a.paragraphId = 0 /\ b.paragraphId = 0
              /\ a.startPos < b.startPos /\ b.startPos < a.endPos
              /\ a.endPos < b.endPos
    /\ FullText(DebugOutParas[1]) =
          Blocked(FullText(InParas[1]), 1..(Len(FullText(InParas[1])) - 1))

----------------------------------------------------------------------------
(* redaction_minimal.py, whose two functions redaction_simple.py repeats    *)
(* line for line                                                            *)

\* redaction_minimal.py lines 33-46: paragraphs whose text.strip() is empty
\* are not listed and the ids count the listed ones
MinimalExtractParagraphs(paras) ==
    LET kept == SelectSeq(paras, LAMBDA para : ~Blank(ParagraphText(para)))
    IN  [k \in 1..Len(kept) |-> [id |-> k - 1, text |-> ParagraphText(kept[k])]]

\* redaction_minimal.py extract_text_from_docx(docx_path): [] on any exception
minimal_extract_text_from_docx(file) ==
    IF ~file.iszip \/ NameToInfo(file.entries, DocumentPart) = 0
    THEN <<>>
    ELSE LET doc == ZipRead(file.entries, DocumentPart)
         IN  IF doc.kind \notin {"uploaded", "etree"} THEN <<>>
             ELSE MinimalExtractParagraphs(doc.paras)

\* a slice bound of Python for a sequence of n items
PyIndex(n, i) ==
    IF i < 0 THEN (IF n + i < 0 THEN 0 ELSE n + i)
    ELSE IF i > n THEN n ELSE i

\* Python's  text[lo:hi]  for any integers lo and hi
PySlice(text, lo, hi) ==
    LET a == PyIndex(Len(text), lo)
        b == PyIndex(Len(text), hi)
    IN  IF a >= b THEN <<>> ELSE SubSeq(text, a + 1, b)

\* redaction_minimal.py lines 77-98: one request against its paragraph
MinimalRedactParagraph(para, r) ==
    LET text_elements == FindAll(para, "t")
        full_text     == ConcatTexts(para, text_elements)
        redacted_text == PySlice(full_text, 0, r.startPos)
                         \o Repeat(<<FullBlock>>, r.endPos - r.startPos)
                         \o PySlice(full_text, r.endPos, Len(full_text))
        cleared       == ClearTexts(para, text_elements)
    IN  IF r.startPos < Len(full_text) /\ r.endPos <= Len(full_text)
        THEN IF text_elements # <<>>
             THEN SetText(cleared, Head(text_elements), redacted_text)
             ELSE cleared
        ELSE para

RECURSIVE MinimalApply(_, _)
\* redaction_minimal.py lines 69-98: the loop over the requests, in batch
\* order; paragraphs[para_id] indexes every w:p of the document
MinimalApply(paras, reqs) ==
    IF reqs = <<>> THEN [raised |-> FALSE, paras |-> paras]
    ELSE LET r == Head(reqs)
             k == ListIndex(Len(paras), r.paragraphId)
         IN  IF r.paragraphId < Len(paras)
             THEN IF k = 0
                  THEN [raised |-> TRUE, paras |-> paras]
                  ELSE MinimalApply(
                         [paras EXCEPT ![k] = MinimalRedactParagraph(@, r)],
                         Tail(reqs))
             ELSE MinimalApply(paras, Tail(reqs))

\* redaction_minimal.py lines 101-102: ET.tostring of the tree, written
\* without a declaration
MinimalSerialize(paras) == [kind |-> "tostring", bytes |-> 0, paras |-> paras]

\* redaction_minimal.py create_redacted_docx(original_path, redactions,
\* output_path)
minimal_create_redacted_docx(orig, reqs, before) ==
    IF ~orig.iszip
    THEN [success |-> FALSE, output |-> before]
    ELSE LET copied == CopyOthers(orig.entries)
             failed == [success |-> FALSE, output |-> Zip(copied)]
         IN  IF NameToInfo(orig.entries, DocumentPart) = 0
             THEN failed
             ELSE LET doc == ZipRead(orig.entries, DocumentPart)
                      res == MinimalApply(doc.paras, reqs)
                  IN  IF doc.kind \notin {"uploaded", "etree"}
                      THEN failed
                      ELSE IF res.raised
                      THEN failed
                      ELSE [success |-> TRUE,
                            output  |-> Zip(Append(copied,
                                       Entry(DocumentPart,
                                             MinimalSerialize(res.paras))))]

\* requests on the first character of each paragraph, past the end of the
\* text, and with a negative start
MinimalRequests ==
    {Req(p, 0, 1) : p \in -1..MaxParas}
    \cup {Req(0, 0, MaxLen + 1), Req(0, -1, 1)}

MinimalBatches == UNION {[1..n -> MinimalRequests] : n \in 0..MaxBatch}

\* the drawn documents and documents that start with a paragraph of a single
\* space, of no run, or of an empty run
MinimalArchives ==
    Archives
    \cup {Package(<<blank, OneRun(Prefix(n))>>) :
            blank \in {OneRun(<<32>>), NoRuns, OneRun(<<>>)}, n \in 1..MaxLen}

InitMinimal ==
    /\ original \in MinimalArchives
    /\ redactions \in MinimalBatches
    /\ redaction_file = NoBatch
    /\ output = NoFile
    /\ success = FALSE
    /\ response = NoResponse
    /\ content = <<>>
    /\ posted = <<>>
    /\ fs = <<>> /\ store = <<>> /\ thread = <<>> /\ now = 0 /\ served = 0
    /\ NoVariants

MinimalExtract ==
    /\ minimal_content' = minimal_extract_text_from_docx(original)
    /\ UNCHANGED <<seqvars, concvars, debug_created, minimal_created>>

MinimalCreate ==
    /\ minimal_created' =
          minimal_create_redacted_docx(original, redactions,
                                       minimal_created.output)
    /\ UNCHANGED <<seqvars, concvars, debug_created, minimal_content>>

NextMinimal == MinimalExtract \/ MinimalCreate

SpecMinimal == InitMinimal /\ [][NextMinimal]_vars

----------------------------------------------------------------------------
(* Paragraph ids of redaction_minimal.py, checked under SpecMinimal *)

MinimalOutParas == ZipRead(minimal_created.output.entries, DocumentPart).paras

\* the index of the paragraph element that is listed under the id
ListedElement(paras, id) ==
    CHOOSE j \in 1..Len(paras) :
       /\ ~Blank(ParagraphText(paras[j]))
       /\ Cardinality({i \in 1..(j - 1) : ~Blank(ParagraphText(paras[i]))}) = id

\* C24: in redaction_minimal.py the paragraph that extract_text_from_docx
\* lists under id k is the paragraph element create_redacted_docx changes
\* for a request with paragraphId k and valid offsets, and no other is.
C24_ListedIsRedacted ==
    (/\ HasDocument(original)
     /\ minimal_created.success
     /\ Len(redactions) = 1
     /\ redactions[1].paragraphId \in 0..(Len(minimal_content) - 1)
     /\ ValidRange(redactions[1],
                   minimal_content[redactions[1].paragraphId + 1].text))
    => \A j \in 1..Len(InParas) :
          (MinimalOutParas[j] # InParas[j])
          <=> (j = ListedElement(InParas, redactions[1].paragraphId))

----------------------------------------------------------------------------
(* redaction_debug.py: the handlers.  The document identifier is the file   *)
(* name the client sent, and one file name is modelled: every upload is     *)
(* stored at the same filepath.                                             *)

\* redaction_debug.py upload_file, lines 176-192: the file is saved under
\* secure_filename(file.filename), over what is there; the redaction file of
\* that name is not touched
debug_upload_file(file) ==
    /\ original' = file
    /\ content' = extract_text_from_docx(file)
    /\ response' = IF extract_text_from_docx(file) = <<>> THEN Json(500) ELSE Json(200)
    /\ UNCHANGED <<redaction_file, redactions, output, success, posted>>

\* redaction_debug.py apply_redaction, lines 199-236
debug_apply_redaction(reqs) ==
    /\ posted' = reqs
    /\ IF ~original.exists
       THEN /\ response' = Json(404)
            /\ UNCHANGED redaction_file
       ELSE /\ redaction_file' = SavedBatch(reqs)
            /\ response' = Json(200)
    /\ UNCHANGED <<original, redactions, output, success, content>>

\* redaction_debug.py download_redacted with format_type 'docx' and
\* download_docx_debug, lines 239-287: create_redacted_docx runs for every
\* batch, the empty one too, and the redaction file stays
debug_download_redacted ==
    IF ~original.exists
    THEN /\ response' = Json(404)
         /\ UNCHANGED <<original, redaction_file, redactions, output, success,
                        content, posted>>
    ELSE LET loaded  == LoadedBatch
             created == debug_create_redacted_docx(original, loaded, output)
         IN  /\ redactions' = loaded
             /\ success' = created.success
             /\ output' = created.output
             /\ response' = IF created.success THEN SendFile(created.output)
                                               ELSE Json(500)
             /\ UNCHANGED <<original, redaction_file, content, posted>>

\* the packages uploaded under the one file name
DebugUploads ==
    {Package(<<OneRun(Prefix(n))>>) : n \in 1..MaxLen}
    \cup {Package(<<OneRun(Prefix(1)), OneRun(Prefix(1))>>), NotAZip}

\* the batches posted
DebugPosted ==
    {<<>>, <<Req(0, 0, 1)>>, <<Req(0, 0, 1), Req(MaxParas, 0, MaxLen + 1)>>}

InitDebug ==
    /\ original = NoFile
    /\ redaction_file = NoBatch
    /\ redactions = <<>>
    /\ output = NoFile
    /\ success = FALSE
    /\ response = NoResponse
    /\ content = <<>>
    /\ posted = <<>>
    /\ fs = <<>> /\ store = <<>> /\ thread = <<>> /\ now = 0 /\ served = 0
    /\ NoVariants

DebugUpload ==
    (\E file \in DebugUploads : debug_upload_file(file))
    /\ UNCHANGED <<concvars, variantvars>>

DebugRedact ==
    (\E reqs \in DebugPosted : debug_apply_redaction(reqs))
    /\ UNCHANGED <<concvars, variantvars>>

DebugDownload == debug_download_redacted /\ UNCHANGED <<concvars, variantvars>>

NextDebug == DebugUpload \/ DebugRedact \/ DebugDownload

SpecDebug == InitDebug /\ [][NextDebug]_vars

----------------------------------------------------------------------------
(* The batch and the package it was marked against, checked under SpecDebug *)

\* C27: after a successful upload the document identifier has no pending
\* batch, an earlier upload of the same file name notwithstanding, so that
\* the next download without a mark redacts nothing.
C27_UploadHasNoBatch ==
    [][(DebugUpload /\ response' = Json(200)) => ~redaction_file'.exists]_vars

----------------------------------------------------------------------------
(* A mark against a download of the same identifier, checked under SpecConc *)

\* thread t passes lines 277-287 in this step: the cleanup of its download
CleansUp(t) == thread[t].pc = "created" /\ thread'[t].pc = "verified"

\* C28: no saved batch is lost unapplied: the redaction file a download
\* removes in its cleanup holds the batch that download loaded, never a
\* batch a /redact stored or is storing since.
C28_CleanupRemovesLoaded ==
    [][\A t \in Threads :
          CleansUp(t)
          => LET batchfile == store[thread[t].filename]
             IN  batchfile.file.exists
                 => /\ batchfile.complete
                    /\ batchfile.file.redactions = thread[t].redactions]_vars

====
